---- MODULE Spec2Model ----
(***************************************************************************)
(* Initialization options and model descriptors of the text embedding      *)
(* models (src/text_embedding/init.rs).                                     *)
(*                                                                         *)
(* A caller holds four values and builds them through the consuming        *)
(* builder calls of init.rs:                                               *)
(*   topts  - a TextInitOptions (catalog options), or None when not yet    *)
(*            constructed / moved into a conversion                        *)
(*   opts   - an InitOptionsUserDefined                                    *)
(*   source - the OnnxSource produced by the last From conversion          *)
(*   model  - a UserDefinedEmbeddingModel, or None before new()            *)
(* Three history variables record what was asked for:                      *)
(*   call   - the last call: its name, its receiver/first argument before  *)
(*            the call (self) and its remaining argument (arg)             *)
(*   given  - the arguments new() was given for the current descriptor     *)
(*   pooled - the argument of the most recent with_pooling on the current  *)
(*            descriptor, None if there was none since new()               *)
(***************************************************************************)
EXTENDS Integers, Sequences, FiniteSets, TLC

VARIABLES topts, opts, source, model, call, given, pooled

vars == <<topts, opts, source, model, call, given, pooled>>

(***************************************************************************)
(* Bounds of the input sets.                                               *)
(***************************************************************************)
MaxProviders == 2
MaxBytes == 1

(***************************************************************************)
(* Option<T>.                                                              *)
(***************************************************************************)
None == [tag |-> "None"]
Some(v) == [tag |-> "Some", val |-> v]
IsSome(o) == o.tag = "Some"

(***************************************************************************)
(* Input domains.                                                          *)
(***************************************************************************)
SeqsUpTo(S, n) == UNION {[1..k -> S] : k \in 0..n}

\* ExecutionProviderDispatch values (opaque to this layer).
Providers == {"CPU", "CUDA"}
ProviderLists == SeqsUpTo(Providers, MaxProviders)

\* super::DEFAULT_MAX_LENGTH, the global default sequence length.
DEFAULT_MAX_LENGTH == 512

\* usize arguments of with_max_length: zero, the boundary 1, an override
\* and the default itself.
LengthValues == {0, 1, DEFAULT_MAX_LENGTH \div 2, DEFAULT_MAX_LENGTH}

\* Vec<u8> buffers: every buffer of at most MaxBytes bytes over two byte
\* values, and the four-byte buffer [0,1,2,3].
ByteValues == {0, 255}
ByteBuffers == SeqsUpTo(ByteValues, MaxBytes) \cup {<<0, 1, 2, 3>>}

\* Paths (the empty path included).
Paths == {"", "model.onnx"}

\* TokenizerFiles bundles (opaque to this layer): the files they hold.
TokenizerBundles == {<<>>, <<"tokenizer.json", "config.json">>}

QuantizationModes == {"None", "Static", "Dynamic"}
Poolings == {"Cls", "Mean"}

\* What can be handed to UserDefinedEmbeddingModel::new / OnnxSource::from:
\* the static type of the argument selects the From impl.
SourceInputs ==
    [type : {"Vec<u8>"}, value : ByteBuffers]
        \cup [type : {"PathBuf", "&Path"}, value : Paths]

(***************************************************************************)
(* impl HasMaxLength for EmbeddingModel                                    *)
(***************************************************************************)
\* Mutant: the family declares a default of its own.
MAX_LENGTH_own == DEFAULT_MAX_LENGTH \div 2

MAX_LENGTH == DEFAULT_MAX_LENGTH

(***************************************************************************)
(* TextInitOptions = InitOptionsWithLength<EmbeddingModel>: the catalog    *)
(* options, parameterized by the model family.                             *)
(***************************************************************************)
TextInitOptions_new ==
    [family |-> "EmbeddingModel",
     execution_providers |-> <<>>,
     max_length |-> MAX_LENGTH]

TextInitOptions_with_execution_providers(self, execution_providers) ==
    [self EXCEPT !.execution_providers = execution_providers]

TextInitOptions_with_max_length(self, max_length) ==
    [self EXCEPT !.max_length = max_length]

(***************************************************************************)
(* InitOptionsUserDefined                                                  *)
(***************************************************************************)
\* Mutant: a derived Default, usize::default() for max_length.
InitOptionsUserDefined_default_derived ==
    [execution_providers |-> <<>>,
     max_length |-> 0]

InitOptionsUserDefined_default ==
    [execution_providers |-> <<>>,
     max_length |-> DEFAULT_MAX_LENGTH]

InitOptionsUserDefined_new == InitOptionsUserDefined_default

\* Mutant: the providers are set on a fresh default value.
with_execution_providers_fresh(self, execution_providers) ==
    [execution_providers |-> execution_providers,
     max_length |-> DEFAULT_MAX_LENGTH]

with_execution_providers(self, execution_providers) ==
    [self EXCEPT !.execution_providers = execution_providers]

\* Mutant: a zero length is replaced by the default.
with_max_length_nonzero(self, max_length) ==
    [self EXCEPT !.max_length =
        IF max_length = 0 THEN DEFAULT_MAX_LENGTH ELSE max_length]

with_max_length(self, max_length) ==
    [self EXCEPT !.max_length = max_length]

\* Mutant: the conversion takes the providers and defaults the rest.
InitOptionsUserDefined_from_defaulted(options) ==
    [execution_providers |-> options.execution_providers,
     max_length |-> DEFAULT_MAX_LENGTH]

\* impl From<TextInitOptions> for InitOptionsUserDefined
InitOptionsUserDefined_from(options) ==
    [execution_providers |-> options.execution_providers,
     max_length |-> options.max_length]

(***************************************************************************)
(* OnnxSource                                                              *)
(***************************************************************************)
Memory(bytes) == [variant |-> "Memory", bytes |-> bytes]
File(path) == [variant |-> "File", path |-> path]

\* impl From<Vec<u8>> for OnnxSource
OnnxSource_from_vec(bytes) == Memory(bytes)

\* impl From<PathBuf> for OnnxSource
OnnxSource_from_path_buf(path) == File(path)

\* Path::to_path_buf: an owned copy of the same path.
to_path_buf(path) == path

\* Mutant: the borrowed path is dropped and an empty PathBuf stored.
OnnxSource_from_path_empty(path) == File("")

\* impl From<&Path> for OnnxSource
OnnxSource_from_path(path) == File(to_path_buf(path))

\* Into<OnnxSource>: the impl is selected by the argument's type.
into(input) ==
    CASE input.type = "Vec<u8>" -> OnnxSource_from_vec(input.value)
      [] input.type = "PathBuf" -> OnnxSource_from_path_buf(input.value)
      [] input.type = "&Path" -> OnnxSource_from_path(input.value)

(***************************************************************************)
(* UserDefinedEmbeddingModel                                               *)
(***************************************************************************)
\* Mutant: new() selects the only output of the graph.
UserDefinedEmbeddingModel_new_keyed(onnx_source, tokenizer_files) ==
    [onnx_source |-> into(onnx_source),
     tokenizer_files |-> tokenizer_files,
     quantization |-> "None",
     pooling |-> None,
     output_key |-> Some("OnlyOne")]

UserDefinedEmbeddingModel_new(onnx_source, tokenizer_files) ==
    [onnx_source |-> into(onnx_source),
     tokenizer_files |-> tokenizer_files,
     quantization |-> "None",
     pooling |-> None,
     output_key |-> None]

\* Mutant: setting the quantization clears the pooling override.
with_quantization_unpooled(self, quantization) ==
    [self EXCEPT !.quantization = quantization, !.pooling = None]

with_quantization(self, quantization) ==
    [self EXCEPT !.quantization = quantization]

\* Mutant: setting the pooling resets the quantization.
with_pooling_unquantized(self, pooling) ==
    [self EXCEPT !.pooling = Some(pooling), !.quantization = "None"]

\* Mutant: the first pooling override wins.
with_pooling_first(self, pooling) ==
    IF IsSome(self.pooling) THEN self
    ELSE [self EXCEPT !.pooling = Some(pooling)]

with_pooling(self, pooling) ==
    [self EXCEPT !.pooling = Some(pooling)]

(***************************************************************************)
(* The calls.                                                              *)
(***************************************************************************)
Called(fn, self, arg) == [fn |-> fn, self |-> self, arg |-> arg]

Init ==
    /\ topts = None
    /\ opts = InitOptionsUserDefined_new
    /\ source = None
    /\ model = None
    /\ call = Called("InitOptionsUserDefined::new", None, None)
    /\ given = None
    /\ pooled = None

\* TextInitOptions::new()
TextNew ==
    /\ topts' = Some(TextInitOptions_new)
    /\ call' = Called("TextInitOptions::new", None, None)
    /\ UNCHANGED <<opts, source, model, given, pooled>>

\* TextInitOptions::with_execution_providers(list)
TextWithExecutionProviders ==
    /\ IsSome(topts)
    /\ \E l \in ProviderLists :
        /\ topts' = Some(TextInitOptions_with_execution_providers(topts.val, l))
        /\ call' = Called("TextInitOptions::with_execution_providers", topts.val, l)
    /\ UNCHANGED <<opts, source, model, given, pooled>>

\* TextInitOptions::with_max_length(n)
TextWithMaxLength ==
    /\ IsSome(topts)
    /\ \E n \in LengthValues :
        /\ topts' = Some(TextInitOptions_with_max_length(topts.val, n))
        /\ call' = Called("TextInitOptions::with_max_length", topts.val, n)
    /\ UNCHANGED <<opts, source, model, given, pooled>>

\* InitOptionsUserDefined::new()
UserDefinedNew ==
    /\ opts' = InitOptionsUserDefined_new
    /\ call' = Called("InitOptionsUserDefined::new", None, None)
    /\ UNCHANGED <<topts, source, model, given, pooled>>

\* InitOptionsUserDefined::default()
UserDefinedDefault ==
    /\ opts' = InitOptionsUserDefined_default
    /\ call' = Called("InitOptionsUserDefined::default", None, None)
    /\ UNCHANGED <<topts, source, model, given, pooled>>

\* InitOptionsUserDefined::with_execution_providers(list)
WithExecutionProviders(l) ==
    /\ opts' = with_execution_providers(opts, l)
    /\ call' = Called("with_execution_providers", opts, l)
    /\ UNCHANGED <<topts, source, model, given, pooled>>

\* InitOptionsUserDefined::with_max_length(n)
WithMaxLength(n) ==
    /\ opts' = with_max_length(opts, n)
    /\ call' = Called("with_max_length", opts, n)
    /\ UNCHANGED <<topts, source, model, given, pooled>>

\* InitOptionsUserDefined::from(topts): the catalog options are moved in.
Convert ==
    /\ IsSome(topts)
    /\ opts' = InitOptionsUserDefined_from(topts.val)
    /\ topts' = None
    /\ call' = Called("InitOptionsUserDefined::from", topts.val, None)
    /\ UNCHANGED <<source, model, given, pooled>>

\* OnnxSource::from(input)
SourceFrom ==
    /\ \E i \in SourceInputs :
        /\ source' = Some(into(i))
        /\ call' = Called("OnnxSource::from", i, None)
    /\ UNCHANGED <<topts, opts, model, given, pooled>>

\* UserDefinedEmbeddingModel::new(input, bundle)
ModelNew ==
    /\ \E i \in SourceInputs, t \in TokenizerBundles :
        /\ model' = Some(UserDefinedEmbeddingModel_new(i, t))
        /\ call' = Called("UserDefinedEmbeddingModel::new", i, t)
        /\ given' = Some([onnx_source |-> i, tokenizer_files |-> t])
    /\ pooled' = None
    /\ UNCHANGED <<topts, opts, source>>

\* UserDefinedEmbeddingModel::with_quantization(q)
WithQuantization ==
    /\ IsSome(model)
    /\ \E q \in QuantizationModes :
        /\ model' = Some(with_quantization(model.val, q))
        /\ call' = Called("with_quantization", model.val, q)
    /\ UNCHANGED <<topts, opts, source, given, pooled>>

\* UserDefinedEmbeddingModel::with_pooling(p)
WithPooling ==
    /\ IsSome(model)
    /\ \E p \in Poolings :
        /\ model' = Some(with_pooling(model.val, p))
        /\ call' = Called("with_pooling", model.val, p)
        /\ pooled' = Some(p)
    /\ UNCHANGED <<topts, opts, source, given>>

WithExecutionProvidersAny == \E l \in ProviderLists : WithExecutionProviders(l)
WithMaxLengthAny == \E n \in LengthValues : WithMaxLength(n)

\* The options calls.
NextOptions ==
    \/ TextNew
    \/ TextWithExecutionProviders
    \/ TextWithMaxLength
    \/ UserDefinedNew
    \/ UserDefinedDefault
    \/ WithExecutionProvidersAny
    \/ WithMaxLengthAny
    \/ Convert

\* The model source and descriptor calls.
NextDescriptor ==
    \/ SourceFrom
    \/ ModelNew
    \/ WithQuantization
    \/ WithPooling

\* The builder mutators of both value types, on values made by new().
NextBuilders ==
    \/ UserDefinedNew
    \/ WithExecutionProvidersAny
    \/ WithMaxLengthAny
    \/ ModelNew
    \/ WithQuantization
    \/ WithPooling

Next == NextOptions \/ NextDescriptor

Spec == Init /\ [][Next]_vars
SpecOptions == Init /\ [][NextOptions]_vars
SpecDescriptor == Init /\ [][NextDescriptor]_vars
SpecBuilders == Init /\ [][NextBuilders]_vars

(***************************************************************************)
(* The properties.                                                         *)
(***************************************************************************)
\* The OnnxSource a conversion of input i has to give: bytes are held in
\* memory, a path names a file.
Expected(i) ==
    IF i.type = "Vec<u8>"
    THEN [variant |-> "Memory", bytes |-> i.value]
    ELSE [variant |-> "File", path |-> i.value]

UserDefinedFields == {"execution_providers", "max_length"}

\* C1: converting catalog options into InitOptionsUserDefined is total and
\* lossless: whenever catalog options exist the conversion can be taken, and
\* its result has exactly the two fields, the same provider list (same
\* elements, same order) and the same max_length as the options converted.
C1_ConversionLossless ==
    /\ IsSome(topts) => ENABLED Convert
    /\ call.fn = "InitOptionsUserDefined::from" =>
        /\ DOMAIN opts = UserDefinedFields
        /\ opts.execution_providers = call.self.execution_providers
        /\ opts.max_length = call.self.max_length

\* C1 witness: catalog options overridden to half the default (256) with two
\* providers in a chosen order were converted, and both came through.
C1_Witness ==
    /\ call.fn = "InitOptionsUserDefined::from"
    /\ call.self.max_length = DEFAULT_MAX_LENGTH \div 2
    /\ call.self.execution_providers = <<"CUDA", "CPU">>
    /\ opts.max_length = DEFAULT_MAX_LENGTH \div 2
    /\ opts.max_length # MAX_LENGTH
    /\ opts.execution_providers = <<"CUDA", "CPU">>

\* C2: freshly constructed options carry the declared defaults:
\* InitOptionsUserDefined::new() and ::default() have no providers and
\* max_length DEFAULT_MAX_LENGTH; TextInitOptions::new() has no providers
\* and the family's MAX_LENGTH.
C2_FreshDefaults ==
    /\ call.fn \in {"InitOptionsUserDefined::new",
                    "InitOptionsUserDefined::default"} =>
        /\ opts.execution_providers = <<>>
        /\ opts.max_length = DEFAULT_MAX_LENGTH
    /\ call.fn = "TextInitOptions::new" =>
        /\ IsSome(topts)
        /\ topts.val.execution_providers = <<>>
        /\ topts.val.max_length = MAX_LENGTH

\* C2 witness: new() was called on options that had been changed, next to
\* changed catalog options.
C2_Witness ==
    /\ call.fn = "InitOptionsUserDefined::new"
    /\ opts.execution_providers = <<>>
    /\ opts.max_length = DEFAULT_MAX_LENGTH
    /\ IsSome(topts)
    /\ topts.val.max_length = 1

\* C3: the OnnxSource variant follows from the type of the converted input
\* alone and the payload is kept: a byte buffer gives Memory of that buffer,
\* a path gives File of that path by value and by reference alike.
C3_SourceVariant ==
    call.fn = "OnnxSource::from" =>
        /\ source = Some(Expected(call.self))
        /\ call.self.type = "Vec<u8>" =>
            /\ source.val.variant = "Memory"
            /\ source.val.bytes = call.self.value
        /\ call.self.type \in {"PathBuf", "&Path"} =>
            /\ source.val.variant = "File"
            /\ source.val.path = call.self.value
            /\ OnnxSource_from_path_buf(call.self.value) = source.val
            /\ OnnxSource_from_path(call.self.value) = source.val

\* C3 witness: a path was converted by reference and is held as a File.
C3_Witness ==
    /\ call.fn = "OnnxSource::from"
    /\ call.self.type = "&Path"
    /\ call.self.value = "model.onnx"
    /\ source = Some([variant |-> "File", path |-> "model.onnx"])

\* C4: new(source, bundle) gives the converted source, the bundle,
\* quantization None, pooling unset and no output key; and from it
\* with_quantization(Q) and with_pooling(P) give the same descriptor in
\* either order, with quantization Q and pooling Some(P).
C4_NewAndOrder ==
    call.fn = "UserDefinedEmbeddingModel::new" =>
        /\ IsSome(model)
        /\ model.val.onnx_source = Expected(call.self)
        /\ model.val.tokenizer_files = call.arg
        /\ model.val.quantization = "None"
        /\ model.val.pooling = None
        /\ model.val.output_key = None
        /\ \A q \in QuantizationModes, p \in Poolings :
            LET qp == with_pooling(with_quantization(model.val, q), p)
                pq == with_quantization(with_pooling(model.val, p), q)
            IN  /\ qp = pq
                /\ qp.quantization = q
                /\ qp.pooling = Some(p)

\* C4 witness: the descriptor of the buffer [0,1,2,3] and an empty bundle.
C4_Witness ==
    /\ call.fn = "UserDefinedEmbeddingModel::new"
    /\ call.self = [type |-> "Vec<u8>", value |-> <<0, 1, 2, 3>>]
    /\ call.arg = <<>>
    /\ model.val.onnx_source = [variant |-> "Memory", bytes |-> <<0, 1, 2, 3>>]
    /\ model.val.quantization = "None"
    /\ model.val.pooling = None

\* C5: with_max_length and with_execution_providers commute: from every
\* options value, both orders give the same providers and the same
\* max_length.
C5_OptionsCommute ==
    \A n \in LengthValues, l \in ProviderLists :
        LET nl == with_execution_providers(with_max_length(opts, n), l)
            ln == with_max_length(with_execution_providers(opts, l), n)
        IN  /\ nl.execution_providers = ln.execution_providers
            /\ nl.max_length = ln.max_length

\* C5 witness: options that are no longer the defaults.
C5_Witness ==
    /\ call.fn = "with_max_length"
    /\ opts.max_length = 1
    /\ Len(opts.execution_providers) = MaxProviders

\* C6: construction never fails and never adjusts: every constructor,
\* mutator and conversion can be taken with every argument, with_max_length(n)
\* stores n whatever n is (0 included), and a max_length of 0 comes through
\* the catalog conversion as 0.
C6_Permissive ==
    /\ ENABLED UserDefinedNew
    /\ ENABLED UserDefinedDefault
    /\ \A n \in LengthValues : ENABLED WithMaxLength(n)
    /\ \A l \in ProviderLists : ENABLED WithExecutionProviders(l)
    /\ IsSome(topts) => ENABLED Convert
    /\ call.fn = "with_max_length" => opts.max_length = call.arg
    /\ (call.fn = "InitOptionsUserDefined::from" /\ call.self.max_length = 0) =>
        opts.max_length = 0

\* C6 witness: a max_length of 0 was stored by with_max_length.
C6_Witness ==
    /\ call.fn = "with_max_length"
    /\ call.arg = 0
    /\ call.self.max_length # 0
    /\ opts.max_length = 0

\* C7: every builder mutator changes only the field it names, so a
\* descriptor keeps the source and the bundle new() was given.
C7_Frame ==
    /\ call.fn = "with_quantization" =>
        /\ model.val.onnx_source = call.self.onnx_source
        /\ model.val.tokenizer_files = call.self.tokenizer_files
        /\ model.val.pooling = call.self.pooling
        /\ model.val.output_key = call.self.output_key
    /\ call.fn = "with_pooling" =>
        /\ model.val.onnx_source = call.self.onnx_source
        /\ model.val.tokenizer_files = call.self.tokenizer_files
        /\ model.val.quantization = call.self.quantization
        /\ model.val.output_key = call.self.output_key
    /\ call.fn = "with_max_length" =>
        opts.execution_providers = call.self.execution_providers
    /\ call.fn = "with_execution_providers" =>
        opts.max_length = call.self.max_length
    /\ IsSome(model) =>
        /\ IsSome(given)
        /\ model.val.onnx_source = Expected(given.val.onnx_source)
        /\ model.val.tokenizer_files = given.val.tokenizer_files

\* C7 witness: with_quantization on a descriptor that has a pooling override
\* and a bundle, next to options that were changed.
C7_Witness ==
    /\ call.fn = "with_quantization"
    /\ call.arg = "Dynamic"
    /\ call.self.quantization = "Static"
    /\ call.self.pooling = Some("Mean")
    /\ model.val.pooling = Some("Mean")
    /\ model.val.tokenizer_files # <<>>
    /\ opts.max_length = 1
    /\ Len(opts.execution_providers) = MaxProviders

\* C8: the text family's default is the global default, so converting a
\* fresh TextInitOptions::new() gives InitOptionsUserDefined::new().
C8_FreshConversion ==
    /\ MAX_LENGTH = DEFAULT_MAX_LENGTH
    /\ (call.fn = "InitOptionsUserDefined::from" /\ call.self = TextInitOptions_new) =>
        /\ opts = InitOptionsUserDefined_new
        /\ opts.execution_providers = <<>>
        /\ opts.max_length = DEFAULT_MAX_LENGTH

\* C8 witness: fresh catalog options were converted.
C8_Witness ==
    /\ call.fn = "InitOptionsUserDefined::from"
    /\ call.self = TextInitOptions_new
    /\ opts = InitOptionsUserDefined_new

\* C9: no descriptor built by new() and the builder mutators has an output
\* key.
C9_NoOutputKey ==
    IsSome(model) => model.val.output_key = None

\* C9 witness: a descriptor with both a quantization and a pooling set.
C9_Witness ==
    /\ IsSome(model)
    /\ model.val.quantization = "Static"
    /\ model.val.pooling = Some("Cls")
    /\ model.val.output_key = None

\* C10: once with_pooling was applied the descriptor's pooling stays set, to
\* the argument of the most recent with_pooling.
C10_PoolingSticks ==
    IsSome(pooled) =>
        /\ IsSome(model)
        /\ IsSome(model.val.pooling)
        /\ model.val.pooling = pooled

\* C10 witness: a second with_pooling replaced the first override.
C10_Witness ==
    /\ call.fn = "with_pooling"
    /\ call.self.pooling = Some("Cls")
    /\ call.arg = "Mean"
    /\ pooled = Some("Mean")
    /\ model.val.pooling = Some("Mean")

====
